---- MODULE Spec2Model ----
(***************************************************************************)
(* Model of src/server.py: the waiting-room / admission / SFU signalling   *)
(* server.  One WebSocket connection is one session; ws_endpoint is the    *)
(* session's handler coroutine and _admit the admission coroutine, which   *)
(* runs either inline at the end of a user's handler or as a background    *)
(* task created by an admin's "admit" command.  Every action is the code   *)
(* between two suspension points (await) of one coroutine.                 *)
(***************************************************************************)
EXTENDS Integers, Sequences, FiniteSets, TLC

\* ---- bounds ------------------------------------------------------------
NumSessions == 3      \* WebSocket connections ever accepted
NumRooms == 2         \* distinct room_id values used
MaxBg == 2            \* background _admit tasks ever created
MaxTasks == 4         \* coroutines (handlers and background tasks) ever created

Sessions == 1..NumSessions
Rooms == 1..NumRooms
\* An _admit coroutine instance.  Instance s (s \in Sessions) is the call at
\* line 290 in the handler of user s; the others are create_task(_admit(..)).
BgInst == (NumSessions + 1)..(NumSessions + MaxBg)
Inst == Sessions \cup BgInst
None == 0

VARIABLES
  role,      \* role[s]: "none" before connect, else authenticate()'s result
  room,      \* room[s]: room_id of the connection (0 before connect)
  conn,      \* conn[s]: the server has not yet seen the socket of s closed
  hpos,      \* hpos[s]: position of ws_endpoint(s)
  iter,      \* iter[s]: state of the set iterator of the handler's for-loop
  admins,    \* admins[r]  = rooms[r]["admins"]
  waiting,   \* waiting[r] = rooms[r]["waiting"]
  peers,     \* peers[r][s] = instance whose RTCPeerConnection is stored, or None
  ipos,      \* ipos[i]: position of _admit instance i
  iws,       \* iws[i]: the ws argument of instance i (None if not created)
  hst,       \* hst[i]: RTCPeerConnection of instance i: "none","open","closed"
  senders,   \* senders[i]: source instances whose track was addTrack'ed on pc i
  live,      \* live[i]: on_track has fired on pc i (an inbound audio track)
  irm,       \* irm[i]: the room_id argument of instance i (None if not created)
  sent,      \* sent[s]: messages written to the socket of s: the distinct
             \* messages in order of first occurrence, each with its count
  offers     \* history: offers[s] = number of offer frames _admit read from s

vars == <<role, room, conn, hpos, iter, admins, waiting, peers, ipos, iws,
          irm, hst, senders, live, sent, offers>>

\* ---- messages ----------------------------------------------------------
Msg(t, p) == [type |-> t, peer |-> p]
WaitingMsg == Msg("waiting", None)                 \* line 279
NewWaitingMsg(p) == Msg("new_waiting", p)          \* lines 248-251, 284-287
AdmittedMsg(p) == Msg("admitted", p)               \* line 160
ReadyMsg == Msg("ready_for_offer", None)           \* line 193
AnswerMsg == Msg("answer", None)                   \* line 204
ChatMsg == Msg("chat", None)

\* What a client may put on its socket.  arg: the peer_id of an admit; the
\* number of audio tracks of an offer, or 2 for an offer whose sdp is missing
\* or does not parse; 1/0 for a well-formed/ill-formed candidate.
\* "malformed" is a frame that is not a JSON object.
ClientMsgs ==
  {[type |-> "admit", arg |-> p] : p \in Sessions}
    \cup {[type |-> "offer", arg |-> n] : n \in {0, 1, 2}}
    \cup {[type |-> "candidate", arg |-> n] : n \in {0, 1}}
    \cup {[type |-> t, arg |-> 0] : t \in {"chat", "malformed"}}

\* safe_send (lines 33-40): the message goes out unless the server already
\* knows the socket is closed, in which case the error is swallowed.
Log(q, m) ==
  IF \E k \in 1..Len(q) : q[k].msg = m
    THEN [k \in 1..Len(q) |-> IF q[k].msg = m THEN [q[k] EXCEPT !.n = @ + 1] ELSE q[k]]
    ELSE Append(q, [msg |-> m, n |-> 1])
safe_send(snt, s, m) ==
  IF conn[s] THEN [snt EXCEPT ![s] = Log(@, m)] ELSE snt

\* how many times m was written to a socket with log q, and the position of
\* its first occurrence among the distinct messages (0: never)
Count(q, m) == IF \E k \in 1..Len(q) : q[k].msg = m
                 THEN (CHOOSE e \in {q[k] : k \in 1..Len(q)} : e.msg = m).n ELSE 0
First(q, m) == IF \E k \in 1..Len(q) : q[k].msg = m
                 THEN CHOOSE k \in 1..Len(q) : q[k].msg = m ELSE 0

NoIter == [on |-> FALSE, snap |-> {}, visited |-> {}]

Init ==
  /\ role = [s \in Sessions |-> "none"]
  /\ room = [s \in Sessions |-> 0]
  /\ conn = [s \in Sessions |-> FALSE]
  /\ hpos = [s \in Sessions |-> "idle"]
  /\ iter = [s \in Sessions |-> NoIter]
  /\ admins = [r \in Rooms |-> {}]
  /\ waiting = [r \in Rooms |-> {}]
  /\ peers = [r \in Rooms |-> [s \in Sessions |-> None]]
  /\ ipos = [i \in Inst |-> "none"]
  /\ iws = [i \in Inst |-> None]
  /\ irm = [i \in Inst |-> None]
  /\ hst = [i \in Inst |-> "none"]
  /\ senders = [i \in Inst |-> {}]
  /\ live = [i \in Inst |-> FALSE]
  /\ sent = [s \in Sessions |-> <<>>]
  /\ offers = [s \in Sessions |-> 0]

\* ---- helpers modelling pieces of the code -------------------------------
Room(s) == room[s]

\* ws_endpoint returns or raises: the server closes the socket.
EndHandler(s) ==
  /\ hpos' = [hpos EXCEPT ![s] = "ended"]
  /\ conn' = [conn EXCEPT ![s] = FALSE]

\* _admit instance i ends.  When it is the call at line 290 the handler ends
\* with it; a background task that saw the disconnect leaves the socket
\* marked closed.
EndAdmit(i, gone) ==
  IF i \in Sessions
    THEN EndHandler(i)
    ELSE /\ conn' = [conn EXCEPT ![iws[i]] = IF gone THEN FALSE ELSE @]
         /\ UNCHANGED hpos

\* set.discard / set.add
Discard(set, x) == set \ {x}
Add(set, x) == set \cup {x}

\* `for x in <live set>` with an await in the body (lines 246, 282).  The
\* iterator remembers the size of the set when the loop started; next()
\* raises RuntimeError when the size differs.  If the set has the same size
\* but other members, what is still visited depends on hash slots.
IterBegin(cur) == [on |-> TRUE, snap |-> cur, visited |-> {}]
IterRaises(it, cur) == Cardinality(cur) # Cardinality(it.snap)
IterNextSet(it, cur) == cur \ it.visited
IterMayStop(it, cur) == (cur \ it.visited = {}) \/ (cur # it.snap)

\* line 155: state["waiting"].discard(ws)   (KeepWaiting: the fault of
\* admitting without taking ws out of waiting)
KeepWaiting(w, ws) == w
DiscardWaiting(w, ws) == Discard(w, ws)

\* lines 263-267: the waiting session whose id() equals peer_id, if any
\* (FindJoined: the fault of looking the peer_id up among all users that
\* have joined, waiting or not)
FindJoined(w, peer_id) == {p \in Sessions : p = peer_id /\ role[p] = "user"}
\* (FindWaitingAnywhere: the fault of searching the waiting sets of all
\* rooms)
FindWaitingAnywhere(w, peer_id) ==
  {p \in Sessions : p = peer_id /\ \E r \in Rooms : p \in waiting[r]}
FindPending(w, peer_id) == {p \in w : p = peer_id}

\* lines 196-199: the first frame read after ready_for_offer is used as the
\* offer: offer["sdp"], offer["type"] must exist and setRemoteDescription
\* accepts it only when its type is "offer" and the sdp parses.
\* (OfferAnyFrame: the fault of answering whatever object arrives first)
OfferAnyFrame(m) == m.type # "malformed"
OfferAccepted(m) == m.type = "offer" /\ m.arg \in {0, 1}

\* lines 209-213: a candidate frame is parsed and applied; the frame raises
\* when it is not an object or when the candidate field is missing or
\* cannot be parsed.
LoopRaises(m) == m.type = "malformed" \/ (m.type = "candidate" /\ m.arg = 0)

\* lines 207-213: what the loop writes to the sockets for frame m read by
\* instance i: no branch of the loop sends anything.
LoopSent(i, m) == sent

\* lines 184-189: on_track attaches a relay subscription of the track of
\* pc `i` (socket ws) to the pc stored for every other socket of the room.
on_track(snd, prs, i, ws) ==
  [h \in Inst |->
     IF \E p \in Sessions : p # ws /\ prs[p] = h
       THEN snd[h] \cup {i} ELSE snd[h]]

\* coroutines created so far
TasksCreated ==
  Cardinality({s \in Sessions : hpos[s] # "idle"})
    + Cardinality({b \in BgInst : ipos[b] # "none"})

\* lowest unused background task slot
FreeBg == {b \in BgInst : ipos[b] = "none" /\ \A c \in BgInst : c < b => ipos[c] # "none"}

\* ---- _admit: lines 154-160, up to the first await ------------------------
AdmitEnter(i, ws, room_id) ==
  /\ waiting' = [waiting EXCEPT ![room_id] = DiscardWaiting(@, ws)]
  /\ sent' = safe_send(sent, ws, AdmittedMsg(ws))
  /\ ipos' = [ipos EXCEPT ![i] = "admitted"]
  /\ iws' = [iws EXCEPT ![i] = ws]
  /\ irm' = [irm EXCEPT ![i] = room_id]

\* ---- _admit: the finally block, lines 217-227 -----------------------------
Cleanup(i) ==
  LET ws == iws[i] r == irm[i] IN
  /\ peers' = [peers EXCEPT ![r][ws] = None]
  /\ admins' = [admins EXCEPT ![r] = Discard(@, ws)]
  /\ waiting' = [waiting EXCEPT ![r] = Discard(@, ws)]
  /\ hst' = [hst EXCEPT ![i] = "closed"]
  /\ senders' = [senders EXCEPT ![i] = {}]
  /\ live' = [live EXCEPT ![i] = FALSE]
  /\ ipos' = [ipos EXCEPT ![i] = "done"]

\* ---- ws_endpoint: lines 233-251 / 276-279 --------------------------------
Connect(s, rl, r) ==
  /\ hpos[s] = "idle"
  /\ TasksCreated < MaxTasks
  /\ IF s = 1 THEN TRUE ELSE hpos[s - 1] # "idle"
  /\ IF r = 1 THEN TRUE ELSE \E t \in Sessions : room[t] = r - 1
  /\ role' = [role EXCEPT ![s] = rl]
  /\ room' = [room EXCEPT ![s] = r]
  /\ conn' = [conn EXCEPT ![s] = TRUE]
  /\ IF rl = "admin"
       THEN /\ admins' = [admins EXCEPT ![r] = Add(@, s)]
            /\ IF waiting[r] = {}
                 THEN /\ hpos' = [hpos EXCEPT ![s] = "cmd"]
                      /\ UNCHANGED <<iter, sent>>
                 ELSE \E p \in waiting[r] :
                      /\ hpos' = [hpos EXCEPT ![s] = "replay"]
                      /\ iter' = [iter EXCEPT ![s] =
                                    [IterBegin(waiting[r]) EXCEPT !.visited = {p}]]
                      /\ sent' = [sent EXCEPT ![s] = Log(@, NewWaitingMsg(p))]
            /\ UNCHANGED waiting
       ELSE /\ waiting' = [waiting EXCEPT ![r] = Add(@, s)]
            /\ sent' = [sent EXCEPT ![s] = Log(@, WaitingMsg)]
            /\ hpos' = [hpos EXCEPT ![s] = "notify"]
            /\ UNCHANGED <<admins, iter>>
  /\ UNCHANGED <<peers, ipos, iws, irm, hst, senders, live, offers>>

\* ---- admin: the next turn of the loop at lines 246-251 -------------------
AdminReplayNext(s) ==
  /\ hpos[s] = "replay"
  /\ LET cur == waiting[Room(s)] it == iter[s] IN
     \/ /\ IterRaises(it, cur)
        /\ EndHandler(s)
        /\ iter' = [iter EXCEPT ![s] = NoIter]
        /\ UNCHANGED sent
     \/ /\ ~IterRaises(it, cur)
        /\ \E p \in IterNextSet(it, cur) :
             /\ sent' = safe_send(sent, s, NewWaitingMsg(p))
             /\ iter' = [iter EXCEPT ![s].visited = @ \cup {p}]
        /\ UNCHANGED <<hpos, conn>>
     \/ /\ ~IterRaises(it, cur)
        /\ IterMayStop(it, cur)
        /\ hpos' = [hpos EXCEPT ![s] = "cmd"]
        /\ iter' = [iter EXCEPT ![s] = NoIter]
        /\ UNCHANGED <<conn, sent>>
  /\ UNCHANGED <<role, room, admins, waiting, peers, ipos, iws, irm, hst,
                 senders, live, offers>>

\* ---- admin: one frame in the command loop, lines 255-269 -----------------
AdminAdmit(s, p) ==
  /\ hpos[s] = "cmd" /\ conn[s]
  /\ IF FindPending(waiting[Room(s)], p) # {}
       THEN \E b \in FreeBg :
              /\ TasksCreated < MaxTasks
              /\ ipos' = [ipos EXCEPT ![b] = "start"]
              /\ iws' = [iws EXCEPT ![b] = p]
              /\ irm' = [irm EXCEPT ![b] = Room(s)]
       ELSE UNCHANGED <<ipos, iws, irm>>
  /\ UNCHANGED <<role, room, conn, hpos, iter, admins, waiting, peers, hst,
                 senders, live, sent, offers>>

\* any other frame: ignored when it is a JSON object, else msg.get raises
\* and the finally at line 274 runs
AdminOther(s, m) ==
  /\ hpos[s] = "cmd" /\ conn[s]
  /\ m.type # "admit"
  /\ IF m.type = "malformed"
       THEN /\ admins' = [admins EXCEPT ![Room(s)] = Discard(@, s)]
            /\ EndHandler(s)
       ELSE UNCHANGED <<admins, hpos, conn>>
  /\ UNCHANGED <<role, room, iter, waiting, peers, ipos, iws, irm, hst,
                 senders, live, sent, offers>>

\* the client has closed its socket: receive_json raises
\* WebSocketDisconnect, lines 271-274
AdminGone(s) ==
  /\ hpos[s] = "cmd"
  /\ admins' = [admins EXCEPT ![Room(s)] = Discard(@, s)]
  /\ EndHandler(s)
  /\ UNCHANGED <<role, room, iter, waiting, peers, ipos, iws, irm, hst,
                 senders, live, sent, offers>>

\* ---- user: the next turn of the loop at lines 282-287, then line 290 -----
UserNotifyNext(s) ==
  /\ hpos[s] = "notify"
  /\ LET cur == admins[Room(s)]
         it == IF iter[s].on THEN iter[s] ELSE IterBegin(cur) IN
     \/ /\ IterRaises(it, cur)
        /\ EndHandler(s)
        /\ iter' = [iter EXCEPT ![s] = NoIter]
        /\ UNCHANGED <<waiting, sent, ipos, iws, irm>>
     \/ /\ ~IterRaises(it, cur)
        /\ \E a \in IterNextSet(it, cur) :
             /\ sent' = safe_send(sent, a, NewWaitingMsg(s))
             /\ iter' = [iter EXCEPT ![s] = [it EXCEPT !.visited = @ \cup {a}]]
        /\ UNCHANGED <<hpos, conn, waiting, ipos, iws, irm>>
     \/ /\ ~IterRaises(it, cur)
        /\ IterMayStop(it, cur)
        /\ hpos' = [hpos EXCEPT ![s] = "admit"]
        /\ iter' = [iter EXCEPT ![s] = NoIter]
        /\ AdmitEnter(s, s, Room(s))
        /\ UNCHANGED conn
  /\ UNCHANGED <<role, room, admins, peers, hst, senders, live, offers>>

\* ---- a background _admit task starts running ------------------------------
AdmitStart(b) ==
  /\ b \in BgInst
  /\ ipos[b] = "start"
  /\ AdmitEnter(b, iws[b], irm[b])
  /\ UNCHANGED <<role, room, conn, hpos, iter, admins, peers, hst, senders,
                 live, offers>>

\* ---- _admit: lines 163-193 ------------------------------------------------
\* the credential fetch succeeds: the pc is built and stored, ready_for_offer
AdmitBuild(i) ==
  /\ ipos[i] = "admitted"
  /\ hst' = [hst EXCEPT ![i] = "open"]
  /\ peers' = [peers EXCEPT ![irm[i]][iws[i]] = i]
  /\ sent' = safe_send(sent, iws[i], ReadyMsg)
  /\ ipos' = [ipos EXCEPT ![i] = "wait_offer"]
  /\ UNCHANGED <<role, room, conn, hpos, iter, admins, waiting, iws, irm,
                 senders, live, offers>>

\* twilio_client.tokens.create() raises at line 163, outside the try
AdmitFetchFails(i) ==
  /\ ipos[i] = "admitted"
  /\ ipos' = [ipos EXCEPT ![i] = "done"]
  /\ EndAdmit(i, FALSE)
  /\ UNCHANGED <<role, room, iter, admins, waiting, peers, iws, irm, hst,
                 senders, live, sent, offers>>

\* ---- _admit: lines 196-199, the frame taken as the offer -----------------
RecvOffer(i, m) ==
  /\ ipos[i] = "wait_offer" /\ conn[iws[i]]
  /\ offers' = [offers EXCEPT ![iws[i]] = IF m.type = "offer" THEN @ + 1 ELSE @]
  /\ IF OfferAccepted(m)
       THEN /\ ipos' = [ipos EXCEPT ![i] = "negotiating"]
            /\ IF m.arg = 1
                 THEN /\ live' = [live EXCEPT ![i] = TRUE]
                      /\ senders' = on_track(senders, peers[irm[i]], i, iws[i])
                 ELSE UNCHANGED <<live, senders>>
            /\ UNCHANGED <<peers, admins, waiting, hst, hpos, conn>>
       ELSE Cleanup(i) /\ EndAdmit(i, FALSE)
  /\ UNCHANGED <<role, room, iter, iws, irm, sent>>

\* ---- _admit: lines 202-204 ------------------------------------------------
SendAnswer(i) ==
  /\ ipos[i] = "negotiating"
  /\ sent' = safe_send(sent, iws[i], AnswerMsg)
  /\ ipos' = [ipos EXCEPT ![i] = "loop"]
  /\ UNCHANGED <<role, room, conn, hpos, iter, admins, waiting, peers, iws,
                 irm, hst, senders, live, offers>>

\* ---- _admit: one frame in the loop at lines 207-213 ----------------------
RecvLoop(i, m) ==
  /\ ipos[i] = "loop" /\ conn[iws[i]]
  /\ IF LoopRaises(m)
       THEN Cleanup(i) /\ EndAdmit(i, FALSE)
       ELSE UNCHANGED <<peers, admins, waiting, hst, senders, live, ipos,
                        hpos, conn>>
  /\ sent' = LoopSent(i, m)
  /\ UNCHANGED <<role, room, iter, iws, irm, offers>>

\* the socket is closed (by the client, or by the server when the handler
\* ended): receive_json raises, lines 215-227
RecvGone(i) ==
  /\ ipos[i] \in {"wait_offer", "loop"}
  /\ Cleanup(i)
  /\ EndAdmit(i, TRUE)
  /\ UNCHANGED <<role, room, iter, iws, irm, sent, offers>>

Roles == {"admin", "user"}

Next ==
  \/ \E s \in Sessions, rl \in Roles, r \in Rooms : Connect(s, rl, r)
  \/ \E s \in Sessions : AdminReplayNext(s)
  \/ \E s \in Sessions, p \in Sessions : AdminAdmit(s, p)
  \/ \E s \in Sessions, m \in ClientMsgs : AdminOther(s, m)
  \/ \E s \in Sessions : AdminGone(s)
  \/ \E s \in Sessions : UserNotifyNext(s)
  \/ \E b \in BgInst : AdmitStart(b)
  \/ \E i \in Inst : AdmitBuild(i)
  \/ \E i \in Inst : AdmitFetchFails(i)
  \/ \E i \in Inst, m \in ClientMsgs : RecvOffer(i, m)
  \/ \E i \in Inst : SendAnswer(i)
  \/ \E i \in Inst, m \in ClientMsgs : RecvLoop(i, m)
  \/ \E i \in Inst : RecvGone(i)

Spec == Init /\ [][Next]_vars

\* ---- vocabulary of the properties ----------------------------------------
PeerKeys(r) == {s \in Sessions : peers[r][s] # None}
Users == {s \in Sessions : role[s] = "user"}
Admins == {s \in Sessions : role[s] = "admin"}
\* _admit instances that have run for socket s, the pcs built for it, and
\* the coroutines blocked in receive_json on it
AdmitRuns(s) == {i \in Inst : iws[i] = s /\ ipos[i] \notin {"none", "start"}}
Handles(s) == {i \in Inst : iws[i] = s /\ hst[i] # "none"}
Readers(s) == {i \in Inst : iws[i] = s /\ ipos[i] \in {"wait_offer", "loop"}}
\* an admin's admit{p} found p waiting in the admin's room (lines 263-269)
AdmitTasks(p) == {b \in BgInst : ipos[b] # "none" /\ iws[b] = p}

AdminFrame(p) == [type |-> "admit", arg |-> p]
ChatFrame == [type |-> "chat", arg |-> 0]

\* ---- C1 -------------------------------------------------------------------
\* C1: a joined user is sent neither `admitted` nor `ready_for_offer` and has
\* no pc in the admitted map of its room until an admin of that room has sent
\* admit with its peer_id.  (The admit the claim speaks of is sent while the
\* user is still waiting, so it finds the user pending and starts a task.)
C1_AdmissionGate ==
  \A u \in Users :
    (\/ Count(sent[u], AdmittedMsg(u)) > 0
     \/ Count(sent[u], ReadyMsg) > 0
     \/ peers[Room(u)][u] # None)
      => AdmitTasks(u) # {}

\* ---- C2 -------------------------------------------------------------------
\* C2: in every reachable state of every room, admins, waiting and the keys
\* of the admitted map are pairwise disjoint.
C2_Disjoint ==
  \A r \in Rooms :
    /\ admins[r] \cap waiting[r] = {}
    /\ admins[r] \cap PeerKeys(r) = {}
    /\ waiting[r] \cap PeerKeys(r) = {}

\* a room with an admin, a waiting user that an admin is admitting, and an
\* admitted user
C2_Witness ==
  \E r \in Rooms :
    /\ admins[r] # {} /\ PeerKeys(r) # {}
    /\ \E b \in BgInst : ipos[b] = "start" /\ iws[b] \in waiting[r]

\* ---- C3 -------------------------------------------------------------------
\* C3: for any session the admission procedure runs at most once: at most one
\* pc is ever built for it, at most one `admitted` is sent to it and at most
\* one coroutine reads from its socket.
C3_NoDoubleAdmit ==
  \A s \in Sessions :
    /\ Cardinality(AdmitRuns(s)) <= 1
    /\ Cardinality(Handles(s)) <= 1
    /\ Count(sent[s], AdmittedMsg(s)) <= 1
    /\ Cardinality(Readers(s)) <= 1

\* ---- C4 -------------------------------------------------------------------
\* C4: admit is idempotent: an admit{p} that arrives after an earlier admit{p}
\* has started p's admission (even back-to-back, before that admission has
\* run) starts nothing and changes nothing.
C4_AdmitIdempotent ==
  [][\A a \in Sessions, p \in Sessions :
       (AdmitTasks(p) # {} /\ AdminAdmit(a, p))
         => UNCHANGED <<admins, waiting, peers, sent, ipos, iws, hst>>]_vars

\* ---- C5 -------------------------------------------------------------------
\* C5: on every socket `admitted` precedes `ready_for_offer`, which precedes
\* any `answer`, and no `answer` is sent before an offer from that peer has
\* been received.
C5_Ordered ==
  \A s \in Sessions :
    LET q == sent[s] IN
    /\ First(q, ReadyMsg) # 0
         => /\ First(q, AdmittedMsg(s)) # 0
            /\ First(q, AdmittedMsg(s)) < First(q, ReadyMsg)
    /\ First(q, AnswerMsg) # 0
         => /\ First(q, ReadyMsg) # 0
            /\ First(q, ReadyMsg) < First(q, AnswerMsg)
    /\ Count(q, AnswerMsg) <= offers[s]

\* a peer admitted twice over has been answered
C5_Witness ==
  \E s \in Sessions :
    /\ Count(sent[s], AnswerMsg) >= 1
    /\ Count(sent[s], AdmittedMsg(s)) >= 2

\* ---- C6 -------------------------------------------------------------------
\* C6: an admin that has connected and is waiting for its first command has,
\* without a message from anyone, been sent `admitted` and then
\* `ready_for_offer` and holds a pc in the admitted map.
C6_AdminSelfAdmit ==
  \A a \in Admins :
    hpos[a] = "cmd"
      => /\ a \in admins[Room(a)]
         /\ First(sent[a], AdmittedMsg(a)) # 0
         /\ First(sent[a], AdmittedMsg(a)) < First(sent[a], ReadyMsg)
         /\ peers[Room(a)][a] # None

\* ---- C7 -------------------------------------------------------------------
\* C7: once a user's join has finished notifying, the user has been sent
\* `waiting` and every admin that was in admins when it joined has been sent
\* new_waiting with its peer_id.  Sessions are numbered in connection order,
\* so the admins of the room with a smaller number that are still in admins
\* were in admins at the join; admins that have left since, or whose socket
\* the server has closed, are not held against the code.
C7_JoinNotifies ==
  \A u \in Users :
    hpos[u] \in {"admit", "ended"}
      => /\ Count(sent[u], WaitingMsg) >= 1
         /\ \A a \in admins[Room(u)] :
              (a < u /\ conn[a]) => Count(sent[a], NewWaitingMsg(u)) >= 1

\* ---- C8 -------------------------------------------------------------------
\* C8: when an admitted peer in its message loop sends chat, every peer
\* admitted to the room, the sender included, receives chat exactly once.
C8_ChatBroadcast ==
  \A i \in Inst :
    (ipos[i] = "loop" /\ conn[iws[i]] /\ peers[Room(iws[i])][iws[i]] = i)
      => \A p \in PeerKeys(Room(iws[i])) :
           conn[p] => Count(LoopSent(i, ChatFrame)[p], ChatMsg)
                        = Count(sent[p], ChatMsg) + 1

\* ---- C9 -------------------------------------------------------------------
\* C9: an admit frame from a user, read at any point after the user's
\* admission, changes no membership set, sends nothing, and leaves the
\* user's session open and reading.
C9_UserAdmitIgnored ==
  [][\A i \in Inst, p \in Sessions :
       (iws[i] \in Users
          /\ (RecvOffer(i, AdminFrame(p)) \/ RecvLoop(i, AdminFrame(p))))
         => UNCHANGED <<admins, waiting, peers, sent, ipos, hpos, conn>>]_vars

\* ---- C10 ------------------------------------------------------------------
\* C10: for every audio track being received from an admitted peer S and
\* every other admitted peer P of the room, P's pc has a sender for the
\* track, and S's own pc has none.
C10_FanOut ==
  \A r \in Rooms : \A S \in PeerKeys(r), P \in PeerKeys(r) :
    (S # P /\ live[peers[r][S]])
      => /\ peers[r][S] \in senders[peers[r][P]]
         /\ peers[r][S] \notin senders[peers[r][S]]

\* ---- C11 ------------------------------------------------------------------
\* C11: once the handler of a session has terminated, for whatever reason,
\* the session is in none of admins, waiting and the admitted map of its room
\* and every pc that was built for it is closed.
C11_TeardownReleases ==
  \A s \in Sessions :
    hpos[s] = "ended"
      => /\ s \notin admins[Room(s)]
         /\ s \notin waiting[Room(s)]
         /\ s \notin PeerKeys(Room(s))
         /\ \A i \in Handles(s) : hst[i] = "closed"

\* ---- C12 ------------------------------------------------------------------
\* C12: a session is a key of the admitted map of its room exactly when a pc
\* has been built for it that is not closed; the pc stored for a session is
\* never a closed one, and no open pc exists for a session that is not a key.
C12_MapIffOpenHandle ==
  \A s \in Sessions :
    role[s] # "none"
      => /\ (s \in PeerKeys(Room(s))) <=> (\E i \in Handles(s) : hst[i] = "open")
         /\ s \in PeerKeys(Room(s)) => hst[peers[Room(s)][s]] = "open"

\* ---- C13 ------------------------------------------------------------------
\* C13: an admit{p} read from an admin whose target p is not in the waiting
\* set of the admin's room changes nothing: no set, no map, no coroutine is
\* created and nothing is sent to anyone.
C13_AdmitNotWaitingNoop ==
  [][\A a \in Sessions, p \in Sessions :
       (role[a] = "admin" /\ p \notin waiting[Room(a)] /\ AdminAdmit(a, p))
         => UNCHANGED vars]_vars

\* an admin ready for a command in a room where a user has been admitted by
\* a task and is no longer waiting
C13_Witness ==
  \E a \in Admins, p \in Users :
    /\ hpos[a] = "cmd" /\ conn[a]
    /\ Room(p) = Room(a)
    /\ p \notin waiting[Room(a)]
    /\ p \in PeerKeys(Room(a))
    /\ AdmitTasks(p) # {}

\* ---- C14 ------------------------------------------------------------------
\* C14: when the credential fetch of an admission fails, the peer being
\* admitted has received no `admitted`.  (An instance that ended without
\* ever building a pc is one whose fetch at line 163 raised; the claim is
\* read for a socket with no other admission.)
C14_FetchFailsNoAdmitted ==
  \A i \in Inst :
    (ipos[i] = "done" /\ hst[i] = "none" /\ AdmitRuns(iws[i]) = {i})
      => Count(sent[iws[i]], AdmittedMsg(iws[i])) = 0

\* ---- C15 ------------------------------------------------------------------
\* C15: a well-formed candidate that arrives after ready_for_offer and before
\* the offer does not end the session: the admission keeps waiting for the
\* offer with its pc open and its socket open (the candidate being kept for
\* later).
CandidateFrame == [type |-> "candidate", arg |-> 1]
C15_EarlyCandidateKept ==
  [][\A i \in Inst :
       RecvOffer(i, CandidateFrame)
         => /\ ipos'[i] = "wait_offer"
            /\ hst'[i] = "open"
            /\ UNCHANGED <<peers, hpos, conn>>]_vars

\* ---- C16 ------------------------------------------------------------------
\* C16: a well-formed offer read in the message loop, after the first answer
\* has been sent, is answered: one more `answer` is sent to that peer.
OfferFrame == [type |-> "offer", arg |-> 0]
C16_Renegotiation ==
  \A i \in Inst :
    (ipos[i] = "loop" /\ conn[iws[i]])
      => Count(LoopSent(i, OfferFrame)[iws[i]], AnswerMsg)
           = Count(sent[iws[i]], AnswerMsg) + 1

\* ---- C17 ------------------------------------------------------------------
\* C17: a frame of a known type with a missing or unparsable field (an offer
\* without a usable sdp, a candidate without a usable candidate line), read
\* at any point of a session, is dropped: the sets, the map and the pcs are
\* as before and the session goes on reading.
MalformedFrames ==
  {[type |-> "offer", arg |-> 2], [type |-> "candidate", arg |-> 0]}
C17_ProtocolErrorsDropped ==
  [][\A m \in MalformedFrames :
       /\ \A i \in Inst :
            (RecvOffer(i, m) \/ RecvLoop(i, m))
              => UNCHANGED <<admins, waiting, peers, hst, ipos, hpos, conn>>
       /\ \A s \in Sessions :
            AdminOther(s, m) => UNCHANGED <<admins, waiting, peers, hst, hpos, conn>>
    ]_vars

\* ---- C18 ------------------------------------------------------------------
\* C18: the notification loops (new_waiting to each admin at a user's join,
\* new_waiting for each waiting user at an admin's join) run over a snapshot:
\* a handler inside such a loop never fails there, and when it leaves the
\* loop it has visited every member the collection had when the loop began.
C18_SnapshotIteration ==
  [][\A s \in Sessions :
       hpos[s] \in {"replay", "notify"}
         => /\ hpos'[s] # "ended"
            /\ hpos'[s] # hpos[s] => iter[s].snap \subseteq iter[s].visited]_vars

\* ---- C19 ------------------------------------------------------------------
\* C19: an admin is sent new_waiting for a given user at most once, however
\* the joins of the user and of the admin interleave.
C19_NewWaitingOnce ==
  \A a \in Sessions, u \in Sessions :
    Count(sent[a], NewWaitingMsg(u)) <= 1

\* ---- C20 ------------------------------------------------------------------
\* C20: rooms are isolated.  The sets and the map of a room hold only
\* sockets connected to that room; an admission started by an admin of room
\* r is that of a session that was waiting in r and runs on the state of r;
\* a track received on a pc of r is attached only to pcs of r; and a step
\* taken by a session of one room (its handler or an admission of it) leaves
\* the admins, waiting and admitted sets of every other room as they were and
\* writes to no socket of another room.
RoomMembersLocal ==
  \A r \in Rooms : \A s \in admins[r] \cup waiting[r] \cup PeerKeys(r) : Room(s) = r
AdmitRoomLocal ==
  \A i \in Inst : ipos[i] # "none" => irm[i] = Room(iws[i])
SendersLocal ==
  \A h \in Inst : \A i \in senders[h] : irm[i] = irm[h]
AdmitTargetsWaiting ==
  \A a \in Sessions, p \in Sessions :
    (AdminAdmit(a, p) /\ ipos' # ipos) => p \in waiting[Room(a)]
\* room r is touched by the step
Touched(r) ==
  \/ admins'[r] # admins[r]
  \/ waiting'[r] # waiting[r]
  \/ peers'[r] # peers[r]
  \/ \E s \in Sessions : Room(s) = r /\ sent'[s] # sent[s]
\* the step is one of a session of room r: the coroutine that moved (a
\* handler changes hpos or its loop iterator, an admission changes ipos) is
\* the handler of a socket of r or an admission of a socket of r
StepIn(r) ==
  \/ \E s \in Sessions :
       /\ room'[s] = r
       /\ hpos'[s] # hpos[s] \/ iter'[s] # iter[s]
  \/ \E i \in Inst :
       /\ ipos'[i] # ipos[i]
       /\ iws'[i] # None
       /\ Room(iws'[i]) = r
C20_RoomIsolation ==
  /\ [](RoomMembersLocal /\ AdmitRoomLocal /\ SendersLocal)
  /\ [][AdmitTargetsWaiting /\ \A r \in Rooms : Touched(r) => StepIn(r)]_vars

\* an admin of one room has started the admission of a user waiting there
\* while another room has an admitted peer
C20_Witness ==
  \E r1 \in Rooms, r2 \in Rooms :
    /\ r1 # r2
    /\ PeerKeys(r2) # {}
    /\ \E b \in BgInst :
         /\ ipos[b] \notin {"none", "start", "done"}
         /\ irm[b] = r1
         /\ admins[r1] # {}

====
